---- MODULE Spec2Model ----
(***************************************************************************)
(* Authentication and favorites slice of the movie-recommendation backend  *)
(* (src/unnamed/part_000): the Express handlers for register, login, GET   *)
(* and POST /api/users/favorites, the authenticateToken middleware, the    *)
(* Mongoose user schema with its pre-save hook, and the client's storage   *)
(* of the token with its logout.                                           *)
(*                                                                         *)
(* Every handler is an async function.  It is cut at the awaits that touch *)
(* shared state (a store operation, an upstream lookup); the synchronous   *)
(* code between two such awaits belongs to the step of the first one.      *)
(* Time is counted in seconds, the unit of the token's iat and exp claims. *)
(***************************************************************************)
EXTENDS Integers, Sequences, FiniteSets, Bags, TLC

(* ------------------------------ bounds --------------------------------- *)

\* Requests started in one behaviour.
MaxReq == 2

\* Seconds the clock may run past the token lifetime.
MaxSkew == 0

(* --------------------------- program constants -------------------------- *)

\* jwt.sign(..., { expiresIn: '7d' }): 7 * 24 * 3600 seconds.
ExpiresIn == 604800

\* bcrypt.hash(this.password, 12)
BcryptCost == 12

(* ------------------------------- inputs --------------------------------- *)

\* Request body fields are strings; "" is the empty (falsy) string.
\* Bodies of POST /api/auth/register: <<username, email, password>>.  Two
\* disjoint accounts, one that shares an email and one that shares a username
\* with them, and bodies with a field missing.
RegisterInputs ==
  {<<"ana", "a@x.com", "secret1">>, <<"bob", "b@x.com", "secret2">>,
   <<"bob", "a@x.com", "secret2">>, <<"ana", "b@x.com", "secret1">>,
   <<"", "a@x.com", "secret1">>, <<"ana", "a@x.com", "">>}

\* Bodies of POST /api/auth/login: <<email, password>>.
LoginInputs ==
  {<<"a@x.com", "secret1">>, <<"a@x.com", "secret2">>, <<"b@x.com", "secret2">>,
   <<"", "secret1">>}

\* JSON values of body.movieId: undefined (field absent), a number, or a
\* string holding the decimal text of v.
Undefined == [t |-> "undefined", v |-> 0]
JsNum(n) == [t |-> "number", v |-> n]
JsStr(n) == [t |-> "string", v |-> n]
MovieIdInputs == {Undefined, JsNum(101), JsNum(303), JsStr(303)}

\* JavaScript truthiness of a movieId value: !movieId at the handler's guard.
\* A string of decimal text is never empty, so only undefined and 0 are falsy.
Truthy(x) == x.t # "undefined" /\ ~(x.t = "number" /\ x.v = 0)

\* fav.movieId === movieId: strict equality compares type and value.
StrictEq(a, b) == a.t = b.t /\ a.v = b.v

\* Mongoose casts the pushed movieId to the schema type Number.
CastNumber(x) == JsNum(x.v)

(* ------------------------------ responses ------------------------------- *)

\* res.status(status).json({ success, message })
Resp(status, success, message) ==
  [status |-> status, success |-> success, message |-> message]

\* error.message of what a rejected await threw: its text and, for a
\* duplicate-key error of the store, the index and the value it names.
ErrorMessage(text, key, value) == [text |-> text, key |-> key, value |-> value]

\* The store's E11000 error for an insert that collides on a unique index.
DuplicateKey(key, value) == ErrorMessage("E11000 duplicate key error", key, value)

\* An awaited operation that rejects for a reason of its own.
OperationFailed == ErrorMessage("operation failed", "", "")

\* res.status(500).json({ success: false, message, error: error.message })
RespError(message, error) ==
  [status |-> 500, success |-> FALSE, message |-> message, error |-> error]

(* ---------------------------- password hasher --------------------------- *)

\* A password value is a text s hashed h times: h = 0 is the plaintext.
\* bcrypt is one-way, so a hash is a constructor over its input.
Plain(s) == [h |-> 0, s |-> s, cost |-> 0]

\* bcrypt.hash(value, cost)
BcryptHash(pv, cost) == [h |-> pv.h + 1, s |-> pv.s, cost |-> cost]

\* bcrypt.compare(candidate, stored): stored is the hash of the candidate.
BcryptCompare(candidate, stored) ==
  stored.h = 1 /\ stored.s = candidate

\* userSchema.pre('save'): rehashes everything, whether modified or not.
PreSaveAlways(doc, modified) ==
  [doc EXCEPT !.password = BcryptHash(doc.password, BcryptCost)]

\* userSchema.pre('save'): hash only when the password path is modified.
PreSave(doc, modified) ==
  IF "password" \notin modified
    THEN doc
    ELSE [doc EXCEPT !.password = BcryptHash(doc.password, BcryptCost)]

\* userSchema.methods.comparePassword
ComparePassword(user, candidatePassword) ==
  BcryptCompare(candidatePassword, user.password)

(* ----------------------------- session token --------------------------- *)

\* jwt.sign({ userId, email }, JWT_SECRET, { expiresIn: '7d' }) at time t.
JwtSign(userId, email, t) ==
  [k |-> "jwt", userId |-> userId, email |-> email, iat |-> t,
   exp |-> t + ExpiresIn, sig |-> "valid"]

\* A token whose signature bytes were altered.
Tamper(tok) == [tok EXCEPT !.sig = "altered"]

\* jwt.verify ignoring the expiry.
JwtVerifyIgnoreExp(tok, t) == tok.k = "jwt" /\ tok.sig = "valid"

\* jwt.verify(token, JWT_SECRET) at time t: TRUE when it returns the payload,
\* FALSE when it throws (malformed, bad signature, t >= exp).
JwtVerify(tok, t) == tok.k = "jwt" /\ tok.sig = "valid" /\ t < tok.exp

\* The decoded payload of a verified token.
Decoded(tok) == [userId |-> tok.userId, email |-> tok.email]

(* -------------------------- Authorization header ------------------------ *)

\* A header value is a sequence of atoms: a space, a word, or a token.
Space == [k |-> "space"]
Word(w) == [k |-> "word", w |-> w]
Garbage == Word("garbage")

NoHeader == [present |-> FALSE, atoms |-> <<>>]
Header(atoms) == [present |-> TRUE, atoms |-> atoms]

\* String.prototype.split(' '): the parts between the spaces, empty parts kept.
RECURSIVE SplitSpace(_, _, _)
SplitSpace(atoms, cur, acc) ==
  IF atoms = <<>>
    THEN Append(acc, cur)
    ELSE IF Head(atoms) = Space
      THEN SplitSpace(Tail(atoms), <<>>, Append(acc, cur))
      ELSE SplitSpace(Tail(atoms), Append(cur, Head(atoms)), acc)

\* req.headers.authorization?.split(' ')[1]: the second part, whatever the
\* first one is.  <<>> stands for both undefined and the empty string, the
\* two falsy outcomes.
BearerToken(h) ==
  IF ~h.present
    THEN <<>>
    ELSE LET parts == SplitSpace(h.atoms, <<>>, <<>>)
         IN IF Len(parts) >= 2 THEN parts[2] ELSE <<>>

\* jwt.verify on the extracted part: only a single token atom can verify.
VerifyPart(part, t) == Len(part) = 1 /\ JwtVerify(part[1], t)

(* -------------------------------- state --------------------------------- *)

VARIABLES
  users,     \* the users collection: a set of user documents
  nextId,    \* the next fresh _id (ObjectIds are unique and opaque)
  now,       \* the clock, in seconds
  req,       \* slot -> the request handled on it, or Idle
  nreq,      \* requests started so far
  issued,    \* tokens the server has sent in a response, with the time
  accounts,  \* what register answered with 201: id, username, email, password
  localStorage, \* browser -> its storage: the 'token' and 'user' items
  responses, \* successful register and login responses on their way to the
             \* browser that sent the request: a bag, one copy for every
             \* fetch that has not resolved yet
  loggedOut  \* the tokens a logout has removed from a browser's storage

vars == <<users, nextId, now, req, nreq, issued, accounts, localStorage,
          responses, loggedOut>>

\* Two requests can be in flight at the same time: what it takes for the
\* handlers of two requests to interleave at their awaits.
Slots == {1, 2}

Idle == [kind |-> "idle", pc |-> "idle", res |-> <<>>]

\* A slot is free before its first request and once its request has been
\* answered; a new request takes the lowest free slot.
Free(s) == req[s].pc \in {"idle", "done"}

FreeSlot(s) ==
  /\ Free(s)
  /\ \A z \in Slots : z < s => ~Free(z)
  /\ nreq < MaxReq

\* The handler answered: res.status(...).json(...) once, then it returns.
Done(r, response) == [r EXCEPT !.pc = "done", !.res = Append(r.res, response)]

(* ----------------------------- the store -------------------------------- *)

\* User.findOne({ $or: [{ email }, { username }] })
FindByEmailOrUsername(email, username) ==
  {u \in users : u.email = email \/ u.username = username}

\* User.findOne({ email })
FindByEmail(email) == {u \in users : u.email = email}

\* User.findById(id)
FindById(id) == {u \in users : u.id = id}

\* An insert with no unique index to stop it.
InsertNoIndex(doc) == TRUE

\* The unique indexes of the schema (username, email: unique: true): an
\* insert passes only if no stored user has either value.
InsertAllowed(doc) ==
  \A u \in users : u.username # doc.username /\ u.email # doc.email

\* The public projection sent in a response: never the password.
PublicUser(u) == [id |-> u.id, username |-> u.username, email |-> u.email]

\* .select('-password'): the document without its password field.
SelectNoPassword(u) ==
  [id |-> u.id, username |-> u.username, email |-> u.email,
   favorites |-> u.favorites]

\* The browsers: two, so that a response can reach a browser that holds a
\* token and one that does not.
Browsers == {"A", "B"}

\* What localStorage.getItem answers for an item that is not there.
NoItem == [t |-> "null", v |-> 0]

\* A storage with neither item.
Cleared == [token |-> NoItem, user |-> NoItem]

\* localStorage.setItem('token', data.token) and ('user', data.user): the
\* items of a browser after a successful response, whatever it held before.
Stored(token, user) == [token |-> token, user |-> PublicUser(user)]

\* localStorage.getItem('token') answers the token in some browser.
Held(token) == \E b \in Browsers : localStorage[b].token = token

\* The body of a successful response as fetch hands it to the browser.
Fetched(browser, data) == [browser |-> browser, data |-> data]

\* A token the server sent: the token, the time of the response and the
\* user the response named.
Issued(token, user, t) ==
  [jwt |-> token, at |-> t, userId |-> user.id, email |-> user.email]

(* ------------------------------ register -------------------------------- *)

\* POST /api/auth/register up to its first await.
StartRegister(s, browser, username, email, password) ==
  /\ FreeSlot(s)
  /\ LET r == [kind |-> "register", pc |-> "regFind", username |-> username,
               email |-> email, password |-> password, res |-> <<>>,
               browser |-> browser]
     IN req' = [req EXCEPT ![s] =
          IF username = "" \/ email = "" \/ password = ""
            THEN Done(r, Resp(400, FALSE, "All fields are required"))
            ELSE r]
  /\ nreq' = nreq + 1
  /\ UNCHANGED <<users, nextId, now, issued, accounts, localStorage, responses, loggedOut>>

\* The existence lookup answers; when none is found new User(...) is built
\* and user.save() enters the pre-save hook, which waits for bcrypt.hash.
RegFind(s) ==
  /\ req[s].kind = "register" /\ req[s].pc = "regFind"
  /\ LET r == req[s]
         existingUser == FindByEmailOrUsername(r.email, r.username)
     IN IF existingUser # {}
          THEN /\ req' = [req EXCEPT ![s] = Done(r, Resp(400, FALSE,
                     "User already exists with this email or username"))]
               /\ UNCHANGED nextId
          ELSE /\ req' = [req EXCEPT ![s] =
                     [kind |-> "register", pc |-> "regHash",
                      username |-> r.username, email |-> r.email,
                      password |-> r.password, res |-> r.res,
                      browser |-> r.browser,
                      doc |-> [id |-> nextId, username |-> r.username,
                               email |-> r.email, password |-> Plain(r.password),
                               favorites |-> <<>>]]]
               /\ nextId' = nextId + 1
  /\ UNCHANGED <<users, now, nreq, issued, accounts, localStorage, responses, loggedOut>>

\* The catch block of register.
RegisterCatch(r, error) == Done(r, RespError("Registration failed", error))

\* The 201 response of register.
RegisterOk(user, token) ==
  [status |-> 201, success |-> TRUE, message |-> "User registered successfully",
   user |-> PublicUser(user), token |-> token]

\* bcrypt.hash answers in the pre-save hook of the new document, every
\* path of which is modified; the insert is sent to the store.
RegHash(s) ==
  /\ req[s].kind = "register" /\ req[s].pc = "regHash"
  /\ req' = [req EXCEPT ![s].pc = "regSave",
                        ![s].doc = PreSave(@, {"username", "email", "password"})]
  /\ UNCHANGED <<users, nextId, now, nreq, issued, accounts, localStorage, responses, loggedOut>>

\* The unique indexes an insert of doc collides on.
Collisions(doc) ==
  {k \in {"username", "email"} : \E u \in users : u[k] = doc[k]}

\* The insert of user.save() answers, then the token and the response.  An
\* insert the unique indexes refuse rejects with the duplicate-key error of
\* one of the indexes it collides on.
RegSave(s) ==
  /\ req[s].kind = "register" /\ req[s].pc = "regSave"
  /\ LET r == req[s]
         doc == r.doc
         token == JwtSign(doc.id, doc.email, now)
     IN IF ~InsertAllowed(doc)
          THEN /\ \E k \in Collisions(doc) :
                    req' = [req EXCEPT ![s] =
                              RegisterCatch(r, DuplicateKey(k, doc[k]))]
               /\ UNCHANGED <<users, issued, accounts, responses>>
          ELSE /\ users' = users \cup {doc}
               /\ req' = [req EXCEPT ![s] = Done(r, RegisterOk(doc, token))]
               /\ issued' = issued \cup {Issued(token, doc, now)}
               /\ responses' = responses
                    (+) SetToBag({Fetched(r.browser, RegisterOk(doc, token))})
               /\ accounts' = accounts \cup
                    {[id |-> doc.id, username |-> r.username,
                      email |-> r.email, password |-> r.password]}
  /\ UNCHANGED <<nextId, now, nreq, localStorage, loggedOut>>

(* -------------------------------- login --------------------------------- *)

\* POST /api/auth/login up to its first await.
StartLogin(s, browser, email, password) ==
  /\ FreeSlot(s)
  /\ LET r == [kind |-> "login", pc |-> "loginFind", email |-> email,
               password |-> password, res |-> <<>>, browser |-> browser]
     IN req' = [req EXCEPT ![s] =
          IF email = "" \/ password = ""
            THEN Done(r, Resp(400, FALSE, "Email and password are required"))
            ELSE r]
  /\ nreq' = nreq + 1
  /\ UNCHANGED <<users, nextId, now, issued, accounts, localStorage, responses, loggedOut>>

\* The response when no user has the email, telling the caller so.
LoginNoUserTelling == Resp(404, FALSE, "User not found")

\* The response when no user has the email.
LoginNoUser == Resp(401, FALSE, "Invalid email or password")

\* The response when the password does not match.
LoginBadPassword == Resp(401, FALSE, "Invalid email or password")

\* The 200 response of login (res.json: the default status).
LoginOk(user, token) ==
  [status |-> 200, success |-> TRUE, message |-> "Login successful",
   user |-> PublicUser(user), token |-> token]

\* findOne({ email }) answers: no user is 401; otherwise comparePassword
\* is called on the loaded document and the handler waits for bcrypt.compare.
LoginFind(s) ==
  /\ req[s].kind = "login" /\ req[s].pc = "loginFind"
  /\ LET r == req[s]
         found == FindByEmail(r.email)
     IN req' = [req EXCEPT ![s] =
          IF found = {}
            THEN Done(r, LoginNoUser)
            ELSE [kind |-> "login", pc |-> "loginCompare", email |-> r.email,
                  password |-> r.password, res |-> r.res,
                  browser |-> r.browser,
                  user |-> CHOOSE u \in found : \A w \in found : u.id <= w.id]]
  /\ UNCHANGED <<users, nextId, now, nreq, issued, accounts, localStorage, responses, loggedOut>>

\* The login once the handler has let go of the document it loaded.
LoginReturned(r) ==
  [kind |-> r.kind, pc |-> r.pc, email |-> r.email, password |-> r.password,
   res |-> r.res, browser |-> r.browser]

\* bcrypt.compare answers for the loaded document: a mismatch is 401;
\* otherwise the token is signed at this time and the response sent.
LoginCompare(s) ==
  /\ req[s].kind = "login" /\ req[s].pc = "loginCompare"
  /\ LET r == req[s]
         user == r.user
         token == JwtSign(user.id, user.email, now)
     IN IF ~ComparePassword(user, r.password)
          THEN /\ req' = [req EXCEPT ![s] = Done(LoginReturned(r), LoginBadPassword)]
               /\ UNCHANGED <<issued, responses>>
          ELSE /\ req' = [req EXCEPT ![s] =
                         Done(LoginReturned(r), LoginOk(user, token))]
               /\ issued' = issued \cup {Issued(token, user, now)}
               /\ responses' = responses
                    (+) SetToBag({Fetched(r.browser, LoginOk(user, token))})
  /\ UNCHANGED <<users, nextId, now, nreq, accounts, localStorage, loggedOut>>

\* The catch block of login.
LoginCatch(r, error) ==
  Done(IF r.pc = "loginCompare" THEN LoginReturned(r) ELSE r,
       RespError("Login failed", error))

(* ------------------------------ Auth Gate ------------------------------- *)

\* Tokens a client can put in a header: the ones the server sent, copies of
\* them with the signature altered, and text that is no token at all.
Presentable ==
  {i.jwt : i \in issued} \cup {Tamper(i.jwt) : i \in issued} \cup {Garbage}

\* Headers that carry a token the server sent, under the Bearer scheme and
\* under another one.
TokenHeaders ==
  {Header(<<w, Space, i.jwt>>) : w \in {Word("Bearer"), Word("Basic")},
                                 i \in issued}

\* Headers with no token, with no scheme, or with a token that is not the
\* server's.
OtherHeaders ==
  {NoHeader, Header(<<Word("Bearer")>>), Header(<<Garbage>>),
   Header(<<Word("Bearer"), Space, Garbage>>)}
    \cup {Header(<<Word("Bearer"), Space, Tamper(i.jwt)>>) : i \in issued}

HeaderInputs == TokenHeaders \cup OtherHeaders

\* Requests to POST /api/users/favorites: every body with the headers that
\* can pass the gate, one body with the others.
AddFavoriteInputs ==
  (TokenHeaders \X MovieIdInputs) \cup (OtherHeaders \X {JsNum(101)})

\* A request to a protected route as it enters authenticateToken: req.user
\* is not set and next() has not been called.  afterLogout notes whether a
\* logout had removed the token from a browser's storage before the request
\* was sent.
Protected(kind, header, movieId) ==
  [kind |-> kind, pc |-> "authFind", header |-> header, movieId |-> movieId,
   next |-> FALSE, decoded |-> 0, user |-> Undefined, res |-> <<>>,
   afterLogout |->
     \E i \in 1..Len(BearerToken(header)) : BearerToken(header)[i] \in loggedOut]

\* A gate that also refuses a token a logout has removed from a browser.
AuthenticateRevoking(r, t) ==
  LET token == BearerToken(r.header)
  IN IF token = <<>>
       THEN Done(r, Resp(401, FALSE, "Access token required"))
       ELSE IF ~VerifyPart(token, t) \/ r.afterLogout
         THEN Done(r, Resp(401, FALSE, "Invalid token"))
         ELSE [r EXCEPT !.decoded = Decoded(token[1]).userId]

\* authenticateToken up to its await: the token is taken from the header and
\* verified; a missing token and a failed verification answer at once.
Authenticate(r, t) ==
  LET token == BearerToken(r.header)
  IN IF token = <<>>
       THEN Done(r, Resp(401, FALSE, "Access token required"))
       ELSE IF ~VerifyPart(token, t)
         THEN Done(r, Resp(401, FALSE, "Invalid token"))
         ELSE [r EXCEPT !.decoded = Decoded(token[1]).userId]

\* GET /api/users/favorites enters the gate.
StartGetFavorites(s, header) ==
  /\ FreeSlot(s)
  /\ req' = [req EXCEPT ![s] =
       Authenticate(Protected("getFavorites", header, Undefined), now)]
  /\ nreq' = nreq + 1
  /\ UNCHANGED <<users, nextId, now, issued, accounts, localStorage, responses, loggedOut>>

\* POST /api/users/favorites enters the gate.
StartAddFavorite(s, header, movieId) ==
  /\ FreeSlot(s)
  /\ req' = [req EXCEPT ![s] =
       Authenticate(Protected("addFavorite", header, movieId), now)]
  /\ nreq' = nreq + 1
  /\ UNCHANGED <<users, nextId, now, issued, accounts, localStorage, responses, loggedOut>>

\* next(): the route handler runs up to its first await.  GET has nothing
\* before it; POST checks body.movieId.
HandlerEntry(r) ==
  IF r.kind = "addFavorite" /\ ~Truthy(r.movieId)
    THEN Done(r, Resp(400, FALSE, "Movie ID is required"))
    ELSE [r EXCEPT !.pc = IF r.kind = "addFavorite" THEN "addFind" ELSE "favFind"]

\* The gate calling next() without looking the user up: req.user is what
\* the token says.
AuthFindNoLookup(s) ==
  /\ req[s].pc = "authFind"
  /\ req' = [req EXCEPT ![s] =
       HandlerEntry([req[s] EXCEPT !.user = [id |-> req[s].decoded],
                                   !.next = TRUE])]
  /\ UNCHANGED <<users, nextId, now, nreq, issued, accounts, localStorage, responses, loggedOut>>

\* User.findById(decoded.userId).select('-password') answers: no user is
\* 401; otherwise req.user is set to the document found and next() is called.
AuthFind(s) ==
  /\ req[s].pc = "authFind"
  /\ LET r == req[s]
         found == FindById(r.decoded)
     IN req' = [req EXCEPT ![s] =
          IF found = {}
            THEN Done(r, Resp(401, FALSE, "Invalid token"))
            ELSE HandlerEntry([r EXCEPT
                   !.user = SelectNoPassword(CHOOSE u \in found : TRUE),
                   !.next = TRUE])]
  /\ UNCHANGED <<users, nextId, now, nreq, issued, accounts, localStorage, responses, loggedOut>>

(* --------------------------- GET favorites ------------------------------ *)

\* The catch block of GET /api/users/favorites.
GetCatch(r) == Done(r, Resp(500, FALSE, "Error fetching favorites"))

\* A lookup's slot in the array handed to Promise.all.
Pending == [st |-> "pending", id |-> 0, addedAt |-> 0]
Null == [st |-> "null", id |-> 0, addedAt |-> 0]

\* The upstream's answer for /movie/<id>: response.data (its id; the text
\* fields carry nothing the handlers decide on).
TmdbMovie(id) == [id |-> id]

\* The object the map callback returns for a lookup that succeeded.
Summary(fav) ==
  [st |-> "value", id |-> TmdbMovie(fav.movieId.v).id, addedAt |-> fav.addedAt]

\* The response with the settled array sent as it is, nulls included.
FavoritesUnfiltered(results) ==
  [status |-> 200, success |-> TRUE, favorites |-> results]

\* res.json({ success: true, favorites: favoriteMovies.filter(Boolean) })
FavoritesOk(results) ==
  [status |-> 200, success |-> TRUE,
   favorites |-> SelectSeq(results, LAMBDA x : x.st # "null")]

\* A combinator that resolves with the first lookup to settle.
FirstSettled(results) ==
  \E i \in 1..Len(results) : results[i] # Pending

\* Promise.all over callbacks that never reject: it resolves when every one
\* of them has settled (at once for an empty array).
AllSettled(results) ==
  \A i \in 1..Len(results) : results[i] # Pending

\* The handler after await Promise.all: once it has resolved the response
\* is sent in the same turn of the event loop; until then the handler waits.
FavRespond(r) ==
  IF AllSettled(r.results) THEN Done(r, FavoritesOk(r.results)) ELSE r

\* User.findById(req.user._id) answers; the map issues one lookup for every
\* favorite before any of them settles, and with no favorite the response
\* is sent at once.  A missing user makes user.favorites throw, which the
\* catch answers.
FavFind(s) ==
  /\ req[s].kind = "getFavorites" /\ req[s].pc = "favFind"
  /\ LET r == req[s]
         found == FindById(r.user.id)
     IN req' = [req EXCEPT ![s] =
          IF found = {}
            THEN GetCatch(r)
            ELSE LET user == CHOOSE u \in found : TRUE
                 IN FavRespond(
                      [kind |-> r.kind, pc |-> "fanout", header |-> r.header,
                       movieId |-> r.movieId, next |-> r.next,
                       decoded |-> r.decoded, user |-> r.user, res |-> r.res,
                       afterLogout |-> r.afterLogout, favs |-> user.favorites,
                       results |-> [i \in 1..Len(user.favorites) |-> Pending]])]
  /\ UNCHANGED <<users, nextId, now, nreq, issued, accounts, localStorage, responses, loggedOut>>

\* One lookup settles, in any order: tmdbAPI.get resolves (ok) or rejects,
\* and the callback's own try/catch turns a rejection into null.  The last
\* one to settle resolves Promise.all and the response is sent.
LookupSettle(s, i, ok) ==
  /\ req[s].kind = "getFavorites" /\ req[s].pc = "fanout"
  /\ i \in 1..Len(req[s].favs)
  /\ req[s].results[i] = Pending
  /\ req' = [req EXCEPT ![s] =
       FavRespond([req[s] EXCEPT !.results[i] =
                     IF ok THEN Summary(req[s].favs[i]) ELSE Null])]
  /\ UNCHANGED <<users, nextId, now, nreq, issued, accounts, localStorage, responses, loggedOut>>

(* --------------------------- POST favorites ----------------------------- *)

\* The catch block of POST /api/users/favorites.
AddCatch(r) == Done(r, Resp(500, FALSE, "Error adding to favorites"))

\* user.favorites.some(fav => fav.movieId === movieId)
AlreadyFavorite(favorites, movieId) ==
  \E i \in 1..Len(favorites) : StrictEq(favorites[i].movieId, movieId)

\* user.favorites.push({ movieId }): the subdocument is cast to the schema
\* (movieId: Number) and addedAt takes its default, Date.now.
NewFavorite(movieId, t) == [movieId |-> CastNumber(movieId), addedAt |-> t]

\* User.findById(req.user._id) answers; the duplicate check and the push
\* run on the loaded document.
AddFind(s) ==
  /\ req[s].kind = "addFavorite" /\ req[s].pc = "addFind"
  /\ LET r == req[s]
         found == FindById(r.user.id)
     IN req' = [req EXCEPT ![s] =
          IF found = {}
            THEN AddCatch(r)
            ELSE LET user == CHOOSE u \in found : TRUE
                 IN IF AlreadyFavorite(user.favorites, r.movieId)
                      THEN Done(r, Resp(400, FALSE, "Movie already in favorites"))
                      ELSE [kind |-> r.kind, pc |-> "addSave", header |-> r.header,
                            movieId |-> r.movieId, next |-> r.next,
                            decoded |-> r.decoded, user |-> r.user, res |-> r.res,
                            afterLogout |-> r.afterLogout, doc |-> [user EXCEPT !.favorites =
                                      Append(@, NewFavorite(r.movieId, now))]]]
  /\ UNCHANGED <<users, nextId, now, nreq, issued, accounts, localStorage, responses, loggedOut>>

\* A save that takes every path of the document as modified.
EveryPathModified == {"username", "email", "password", "favorites"}

\* The modified paths of a document loaded by findById after
\* user.favorites.push: what isModified answers in the pre-save hook.
PushModified == {"favorites"}

\* user.save() of a loaded document: Mongoose sends the changes only, the
\* pushed entry as a $push on the stored array and the password if the hook
\* replaced it.
SaveChanges(stored, loaded, saved) ==
  [stored EXCEPT
     !.favorites = Append(@, saved.favorites[Len(saved.favorites)]),
     !.password = IF saved.password # loaded.password THEN saved.password ELSE @]

\* The request once the handler has let go of the document it loaded.
Returned(r) ==
  [kind |-> r.kind, pc |-> r.pc, header |-> r.header, movieId |-> r.movieId,
   next |-> r.next, decoded |-> r.decoded, user |-> r.user, res |-> r.res,
   afterLogout |-> r.afterLogout]

\* await user.save() answers, then the response.  Saving a document that is
\* no longer stored rejects, which the catch answers.
AddSave(s) ==
  /\ req[s].kind = "addFavorite" /\ req[s].pc = "addSave"
  /\ LET r == req[s]
         found == FindById(r.user.id)
     IN IF found = {}
          THEN /\ req' = [req EXCEPT ![s] = AddCatch(Returned(r))]
               /\ UNCHANGED users
          ELSE LET stored == CHOOSE u \in found : TRUE
                   saved == PreSave(r.doc, PushModified)
               IN /\ users' = (users \ {stored})
                                \cup {SaveChanges(stored, r.doc, saved)}
                  /\ req' = [req EXCEPT ![s] =
                       Done(Returned(r), Resp(200, TRUE, "Movie added to favorites"))]
  /\ UNCHANGED <<nextId, now, nreq, issued, accounts, localStorage, responses, loggedOut>>

(* -------------------------------- client -------------------------------- *)

\* handleRegister and handleLogin after await fetch and await
\* response.json(): data.success is true, so setItem puts the token and the
\* user of the response into the storage of the browser that sent the
\* request, in place of what it held.  Every fetch resolves on its own: two
\* equal responses to one browser are stored twice, a logout in between or
\* not.
HandleAuthResponse(f) ==
  /\ BagIn(f, responses)
  /\ localStorage' = [localStorage EXCEPT
                        ![f.browser] = Stored(f.data.token, f.data.user)]
  /\ responses' = responses (-) SetToBag({f})
  /\ UNCHANGED <<users, nextId, now, req, nreq, issued, accounts, loggedOut>>

\* handleLogout in a browser that shows a logged-in user: both items are
\* removed from its storage.  No request is sent.
HandleLogout(b) ==
  /\ localStorage[b] # Cleared
  /\ localStorage' = [localStorage EXCEPT ![b] = Cleared]
  /\ loggedOut' = loggedOut \cup {localStorage[b].token}
  /\ UNCHANGED <<users, nextId, now, req, nreq, issued, accounts, responses>>

(* -------------------------------- clock --------------------------------- *)

\* The instants the clock is observed at: the start, the second at which a
\* token issued at the start expires, and the seconds after it.
Times == {0} \cup {ExpiresIn + a : a \in 0..MaxSkew}

\* Time passes, from one observed instant to a later one.
Tick(t) ==
  /\ t \in Times
  /\ t > now
  /\ now' = t
  /\ UNCHANGED <<users, nextId, req, nreq, issued, accounts, localStorage, responses, loggedOut>>

(* -------------------------------- faults -------------------------------- *)

\* An error thrown inside a handler leaves it without a response.
Uncaught(r) == [r EXCEPT !.pc = "done"]

\* Where an error thrown at an await lands: the gate's catch answers 401,
\* each handler's catch answers 500.
Caught(r) ==
  CASE r.pc = "authFind" -> Done(r, Resp(401, FALSE, "Invalid token"))
    [] r.kind = "register" -> RegisterCatch(r, OperationFailed)
    [] r.kind = "login" -> LoginCatch(r, OperationFailed)
    [] r.kind = "getFavorites" -> GetCatch(r)
    [] r.kind = "addFavorite" -> AddCatch(r)

\* The awaited store operation rejects (connection lost, timeout).
StoreFails(s) ==
  /\ req[s].pc \in {"regFind", "regSave", "loginFind", "authFind",
                    "favFind", "addFind", "addSave"}
  /\ req' = [req EXCEPT ![s] = Caught(req[s])]
  /\ UNCHANGED <<users, nextId, now, nreq, issued, accounts, localStorage, responses, loggedOut>>

\* The awaited bcrypt operation rejects.
HasherFails(s) ==
  /\ req[s].pc \in {"regHash", "loginCompare"}
  /\ req' = [req EXCEPT ![s] = Caught(req[s])]
  /\ UNCHANGED <<users, nextId, now, nreq, issued, accounts, localStorage, responses, loggedOut>>

\* The store is an external database: a user document can be removed from
\* it by something other than this program.
StoreLosesUser(u) ==
  /\ u \in users
  /\ users' = users \ {u}
  /\ UNCHANGED <<nextId, now, req, nreq, issued, accounts, localStorage, responses, loggedOut>>

(* ---------------------------- specification ----------------------------- *)

\* The server starts on a database that outlives it: empty, or holding what
\* earlier requests left there.  The seeded store is the one reached by
\* registering ana at time 0 and adding two favorites, built with the
\* operators the handlers use.
SeedBody == <<"ana", "a@x.com", "secret1">>

SeedFavorites == <<NewFavorite(JsNum(101), 0), NewFavorite(JsNum(202), 0)>>

SeedUser ==
  [PreSave([id |-> 1, username |-> SeedBody[1], email |-> SeedBody[2],
            password |-> Plain(SeedBody[3]), favorites |-> <<>>],
           {"username", "email", "password"})
     EXCEPT !.favorites = SeedFavorites]

InitEmpty ==
  /\ users = {}
  /\ nextId = 1
  /\ issued = {}
  /\ accounts = {}
  /\ localStorage = [b \in Browsers |-> Cleared]

InitSeeded ==
  /\ users = {SeedUser}
  /\ nextId = 2
  /\ issued = {Issued(JwtSign(1, SeedBody[2], 0), SeedUser, 0)}
  /\ localStorage = [b \in Browsers |->
       IF b = "A" THEN Stored(JwtSign(1, SeedBody[2], 0), SeedUser) ELSE Cleared]
  /\ accounts = {[id |-> 1, username |-> SeedBody[1], email |-> SeedBody[2],
                  password |-> SeedBody[3]]}

\* The positions a favorites list can have: the seeded list, grown by one
\* entry for every request.
FavoriteIndexes == 1..(Len(SeedFavorites) + MaxReq)

Init ==
  /\ InitEmpty \/ InitSeeded
  /\ now = 0
  /\ req = [s \in Slots |-> Idle]
  /\ responses = EmptyBag
  /\ loggedOut = {}
  /\ nreq = 0

Next ==
  \/ \E s \in Slots, c \in Browsers, b \in RegisterInputs :
       StartRegister(s, c, b[1], b[2], b[3])
  \/ \E s \in Slots : RegFind(s)
  \/ \E s \in Slots : RegHash(s)
  \/ \E s \in Slots : RegSave(s)
  \/ \E s \in Slots, c \in Browsers, b \in LoginInputs :
       StartLogin(s, c, b[1], b[2])
  \/ \E s \in Slots : LoginFind(s)
  \/ \E s \in Slots : LoginCompare(s)
  \/ \E s \in Slots, h \in HeaderInputs : StartGetFavorites(s, h)
  \/ \E s \in Slots, b \in AddFavoriteInputs : StartAddFavorite(s, b[1], b[2])
  \/ \E s \in Slots : AuthFind(s)
  \/ \E s \in Slots : FavFind(s)
  \/ \E s \in Slots, i \in FavoriteIndexes, ok \in BOOLEAN : LookupSettle(s, i, ok)
  \/ \E s \in Slots : AddFind(s)
  \/ \E s \in Slots : AddSave(s)
  \/ \E f \in BagToSet(responses) : HandleAuthResponse(f)
  \/ \E b \in Browsers : HandleLogout(b)
  \/ \E t \in Times : Tick(t)

Spec == Init /\ [][Next]_vars

\* The same program with a store that can fail and lose documents.
NextFaulty ==
  \/ Next
  \/ \E s \in Slots : StoreFails(s)
  \/ \E s \in Slots : HasherFails(s)
  \/ \E u \in users : StoreLosesUser(u)

SpecFaulty == Init /\ [][NextFaulty]_vars

\* The program with an upstream whose lookups all settle.
SpecLive ==
  /\ Spec
  /\ \A s \in Slots :
       WF_vars(\E i \in FavoriteIndexes, ok \in BOOLEAN : LookupSettle(s, i, ok))

(* ============================== properties ============================== *)

\* The one response of an answered request.
Answer(r) == r.res[1]

Answered(s) == req[s].pc = "done"

\* The request on slot s is answered by this step.
AnsweredNow(s) == req[s].pc \notin {"idle", "done"} /\ req'[s].pc = "done"

\* A new request arrives on slot s in this step.
Arrives(s) == nreq' = nreq + 1 /\ req'[s] # req[s]

\* No stored user has the username or the email of the body.
NotRegistered(r) ==
  \A u \in users : u.username # r.username /\ u.email # r.email

(* ---- C1 ---- *)

\* C1, register: a registration whose fields are all non-empty is taken past
\* validation, and when it is answered while no stored user has its username
\* or its email, the answer is 201 with success = true, the user it names is
\* stored under that identifier, and the response carries no password.
C1_RegisterStep ==
  \A s \in Slots :
    /\ (Arrives(s) /\ req'[s].kind = "register"
          /\ req'[s].username # "" /\ req'[s].email # "" /\ req'[s].password # "")
         => req'[s].pc = "regFind"
    /\ (req[s].kind = "register" /\ AnsweredNow(s) /\ NotRegistered(req[s]))
         => /\ Len(req'[s].res) = 1
            /\ Answer(req'[s]).status = 201
            /\ Answer(req'[s]).success = TRUE
            /\ Answer(req'[s]).user =
                 [id |-> Answer(req'[s]).user.id, username |-> req[s].username,
                  email |-> req[s].email]
            /\ \E u \in users' :
                 /\ u.id = Answer(req'[s]).user.id
                 /\ u.username = req[s].username /\ u.email = req[s].email
            /\ \E a \in accounts' :
                 /\ a.id = Answer(req'[s]).user.id
                 /\ a.email = req[s].email /\ a.password = req[s].password

\* C1, login: a login answered after a registration, with that registration's
\* email and password, is answered 200 with success = true and the
\* identifier the registration returned, whatever was handled in between.
C1_LoginStep ==
  \A s \in Slots :
    (req[s].kind = "login" /\ AnsweredNow(s)) =>
      \A a \in accounts :
        (a.email = req[s].email /\ a.password = req[s].password) =>
          /\ Len(req'[s].res) = 1
          /\ Answer(req'[s]).status = 200
          /\ Answer(req'[s]).success = TRUE
          /\ Answer(req'[s]).user.id = a.id

\* C1: for every registration with non-empty fields whose username and email
\* are not in the store, register answers 201, and every later login with the
\* same email and password succeeds with the identifier register returned.
C1_RegisterThenLogin == [][C1_RegisterStep /\ C1_LoginStep]_vars

\* C1 witness: a registration of this run was answered 201 and the login
\* after it, with the same email and password, got the same identifier.
C1_Witness ==
  \E s, z \in Slots :
    /\ req[s].kind = "register" /\ Answered(s) /\ Answer(req[s]).status = 201
    /\ req[z].kind = "login" /\ Answered(z) /\ Answer(req[z]).status = 200
    /\ req[z].email = req[s].email /\ req[z].password = req[s].password
    /\ Answer(req[z]).user.id = Answer(req[s]).user.id

(* ---- C2 ---- *)

Unauthorized == Resp(401, FALSE, "Invalid email or password")

\* The login's email belongs to no account.
UnknownEmail(r) == \A a \in accounts : a.email # r.email

\* The login's email belongs to an account with another password.
WrongPassword(r) == \E a \in accounts : a.email = r.email /\ a.password # r.password

\* C2, responses: a login for an email no user has and a login with a wrong
\* password are both answered 401 with the same body, so any two such
\* answers are equal.
C2_SameResponse ==
  /\ \A s \in Slots :
       (req[s].kind = "login" /\ Answered(s)
          /\ req[s].email # "" /\ req[s].password # ""
          /\ (UnknownEmail(req[s]) \/ WrongPassword(req[s])))
         => req[s].res = <<Unauthorized>>
  /\ \A s, z \in Slots :
       (req[s].kind = "login" /\ Answered(s) /\ req[z].kind = "login" /\ Answered(z)
          /\ req[s].email # "" /\ req[s].password # "" /\ UnknownEmail(req[s])
          /\ req[z].email # "" /\ req[z].password # "" /\ WrongPassword(req[z]))
         => req[s].res = req[z].res

\* C2, store: no step of a login changes the store.
C2_StoreUntouched ==
  \A s \in Slots :
    (req[s].kind = "login" /\ req'[s] # req[s]) => users' = users

\* C2: a login with a wrong password and a login with an unknown email get
\* the same status (401) and the same body, and neither changes the store.
C2_LoginIndistinguishable == []C2_SameResponse /\ [][C2_StoreUntouched]_vars

\* C2 witness: an answered login for an unknown email beside an answered
\* login with a wrong password for a registered one.
C2_Witness ==
  \E s, z \in Slots :
    /\ req[s].kind = "login" /\ Answered(s) /\ req[s].email # ""
    /\ UnknownEmail(req[s])
    /\ req[z].kind = "login" /\ Answered(z) /\ req[z].password # ""
    /\ WrongPassword(req[z])
    /\ Answer(req[s]).status = 401 /\ Answer(req[z]).status = 401

(* ---- C3 ---- *)

\* The stored favorites of the user a request acts for.
StoredFavorites(r) ==
  LET found == {u \in users : u.id = r.user.id}
  IN IF found = {} THEN <<>> ELSE (CHOOSE u \in found : TRUE).favorites

\* The number of entries of a favorites list for the movie a body names.
EntriesFor(favorites, m) ==
  Cardinality({i \in 1..Len(favorites) : favorites[i].movieId.v = m.v})

\* C3: when POST /api/users/favorites reads the user's list for an accepted
\* movie id m, a list without m lets the request through to the save, and a
\* list that already holds m (an earlier POST added it) gets the request
\* rejected with 400 'Movie already in favorites', the store unchanged; so
\* right after a POST the list holds exactly one entry for m.
C3_SecondAddConflicts ==
  [][\A s \in Slots :
       (req[s].kind = "addFavorite" /\ req[s].pc = "addFind"
          /\ req'[s].pc # "addFind") =>
         IF EntriesFor(StoredFavorites(req[s]), req[s].movieId) = 0
           THEN req'[s].pc = "addSave"
           ELSE /\ req'[s].pc = "done"
                /\ req'[s].res = <<Resp(400, FALSE, "Movie already in favorites")>>
                /\ users' = users]_vars

(* ---- C4 ---- *)

\* The summaries a favorites list and its lookups' outcomes call for: the
\* summary of every entry whose lookup succeeded, in the order of the list.
RECURSIVE ExpectedSummaries(_, _)
ExpectedSummaries(favs, failed) ==
  IF favs = <<>>
    THEN <<>>
    ELSE LET n == Len(favs)
             front == ExpectedSummaries(SubSeq(favs, 1, n - 1), failed)
         IN IF n \in failed
              THEN front
              ELSE Append(front, [st |-> "value", id |-> favs[n].movieId.v,
                                  addedAt |-> favs[n].addedAt])

\* The lookups of a request that failed.
FailedLookups(r) == {i \in 1..Len(r.favs) : r.results[i] = Null}

\* C4, response: an answered GET /api/users/favorites whose handler read the
\* list answers 200 with exactly the summaries of the entries whose lookup
\* succeeded, in list order; a failed lookup never makes it an error.
C4_Response ==
  \A s \in Slots :
    (req[s].kind = "getFavorites" /\ Answered(s) /\ "favs" \in DOMAIN req[s]) =>
      req[s].res = <<[status |-> 200, success |-> TRUE,
                      favorites |-> ExpectedSummaries(req[s].favs,
                                                      FailedLookups(req[s]))]>>

\* C4, list: the list the lookups are issued for is the user's stored list.
C4_ReadsStoredList ==
  \A s \in Slots :
    (req[s].kind = "getFavorites" /\ req[s].pc = "favFind"
       /\ "favs" \in DOMAIN req'[s]) => req'[s].favs = StoredFavorites(req[s])

\* C4: GET /api/users/favorites returns the summaries of the favorites whose
\* lookup succeeded, in the order of the stored list, for every list, every
\* set of failing lookups and every completion order.
C4_PartialFailureIsSuccess == []C4_Response /\ [][C4_ReadsStoredList]_vars

\* C4 witness: the list [101, 202, 303] with the lookup for 202 failed and
\* the other two succeeded, answered with the summaries of 101 and 303.
C4_Witness ==
  \E s \in Slots :
    /\ req[s].kind = "getFavorites" /\ Answered(s) /\ "favs" \in DOMAIN req[s]
    /\ [i \in 1..Len(req[s].favs) |-> req[s].favs[i].movieId.v] = <<101, 202, 303>>
    /\ FailedLookups(req[s]) = {2}
    /\ [i \in 1..Len(Answer(req[s]).favorites) |-> Answer(req[s]).favorites[i].id]
         = <<101, 303>>

(* ---- C5 ---- *)

\* A header of the form 'Bearer <token>': the scheme, one space, one part.
WellFormed(h) ==
  /\ h.present
  /\ Len(h.atoms) = 3
  /\ h.atoms[1] = Word("Bearer")
  /\ h.atoms[2] = Space
  /\ h.atoms[3] # Space

\* C5: a request to a protected route whose Authorization header is absent
\* or not of the form 'Bearer <token>' is answered 401 'Access token
\* required' by the gate, and the handler behind the gate is not invoked.
C5_MalformedHeaderRejected ==
  \A s \in Slots :
    (req[s].kind \in {"getFavorites", "addFavorite"} /\ ~WellFormed(req[s].header))
      => /\ req[s].next = FALSE
         /\ req[s].pc = "done"
         /\ req[s].res = <<Resp(401, FALSE, "Access token required")>>

(* ---- C6 ---- *)

\* Times a token is probed at: its own second of issue, the seconds around
\* its expiry, and long after.
ProbeTimes(i) ==
  {i.at, i.at + 1, i.at + ExpiresIn - 1, i.at + ExpiresIn + 1,
   i.at + ExpiresIn + ExpiresIn}

\* C6, tokens: every token the server sent verifies to the identifier and
\* email of the user it was sent for at every time before its issue plus 7
\* days, and fails after; with its signature altered, or with an expiry that
\* has passed, it never verifies.
C6_TokenLifetime ==
  \A i \in issued : \A t \in ProbeTimes(i) :
    /\ t < i.at + ExpiresIn =>
         /\ JwtVerify(i.jwt, t)
         /\ Decoded(i.jwt) = [userId |-> i.userId, email |-> i.email]
    /\ t > i.at + ExpiresIn => ~JwtVerify(i.jwt, t)
    /\ ~JwtVerify(Tamper(i.jwt), t)
    /\ \A e \in ProbeTimes(i) : e < t => ~JwtVerify([i.jwt EXCEPT !.exp = e], t)

\* The atoms of a header: the tokens it can carry are among them.
AtomsOf(h) == {h.atoms[k] : k \in 1..Len(h.atoms)}

\* C6, no refresh: a token comes only with a successful register or login
\* response, and the gate lets a request on to the store lookup only with a
\* token the server sent less than 7 days before.
C6_NoRefresh ==
  /\ issued' # issued =>
       \E s \in Slots :
         /\ req[s].kind \in {"register", "login"} /\ AnsweredNow(s)
         /\ Answer(req'[s]).success = TRUE
         /\ issued' = issued \cup
              {[jwt |-> Answer(req'[s]).token, at |-> now,
                userId |-> Answer(req'[s]).user.id,
                email |-> Answer(req'[s]).user.email]}
  /\ \A s \in Slots :
       (Arrives(s) /\ req'[s].kind \in {"getFavorites", "addFavorite"}
          /\ req'[s].pc = "authFind") =>
         \E i \in issued :
           /\ i.jwt \in AtomsOf(req'[s].header)
           /\ i.at <= now /\ now < i.at + ExpiresIn

\* C6: a session token verifies to its original claims until 7 days after
\* its issue and not after, never with an altered signature or a past
\* expiry, and only a new register or login yields an accepted token.
C6_SevenDayToken == []C6_TokenLifetime /\ [][C6_NoRefresh]_vars

\* C6 witness: a token sent at time 0 took one request through the gate,
\* and the same token, presented 7 days later, is answered 401 'Invalid
\* token'.
C6_Witness ==
  \E s, z \in Slots : \E i \in issued :
    /\ req[s].kind \in {"getFavorites", "addFavorite"} /\ Answered(s)
    /\ req[s].header = Header(<<Word("Bearer"), Space, i.jwt>>)
    /\ i.at + ExpiresIn <= now
    /\ req[s].res = <<Resp(401, FALSE, "Invalid token")>>
    /\ req[z].kind \in {"getFavorites", "addFavorite"}
    /\ req[z].header = req[s].header
    /\ req[z].next = TRUE

(* ---- C7 ---- *)

\* C7: a registration answered while a stored user has its email or its
\* username is answered 400 'User already exists with this email or
\* username', and no user is created or changed, however the handling of
\* registrations interleaves.
C7_DuplicateIsConflict ==
  [][\A s \in Slots :
       (req[s].kind = "register" /\ AnsweredNow(s) /\ ~NotRegistered(req[s])) =>
         /\ req'[s].res = <<Resp(400, FALSE,
                "User already exists with this email or username")>>
         /\ users' = users]_vars

(* ---- C8 ---- *)

\* C8, one response: a request has no response while it is handled and
\* exactly one, an object with a boolean success field, once it is done.
C8_OneResponse ==
  \A s \in Slots :
    /\ ~Answered(s) => req[s].res = <<>>
    /\ Answered(s) =>
         /\ Len(req[s].res) = 1
         /\ Answer(req[s]).success \in BOOLEAN
         /\ Answer(req[s]).status \in {200, 201, 400, 401, 500}
         /\ Answer(req[s]).success <=> Answer(req[s]).status \in {200, 201}

\* The user a handler is about to load is not in the store.
UserMissing(r) ==
  /\ r.pc \in {"favFind", "addFind", "addSave"}
  /\ \A u \in users : u.id # r.user.id

\* C8, failures: a store operation or a bcrypt operation that fails, and a
\* user record that is missing when a handler loads it, end the request
\* with one response whose success is false.
C8_FailureIsEnvelope ==
  \A s \in Slots :
    (StoreFails(s) \/ HasherFails(s)
       \/ (UserMissing(req[s]) /\ req'[s] # req[s])) =>
      /\ req'[s].pc = "done"
      /\ Len(req'[s].res) = 1
      /\ Answer(req'[s]).success = FALSE

\* C8: every request to register, login, GET or POST favorites gets exactly
\* one response, a JSON object with a boolean success field, and every
\* internal failure becomes a success = false response of the handler.
C8_AlwaysOneEnvelope == []C8_OneResponse /\ [][C8_FailureIsEnvelope]_vars

\* C8 witness: a favorites handler found its user's record missing and the
\* request was answered 500 with success = false.
C8_Witness ==
  \E s \in Slots :
    /\ req[s].kind \in {"getFavorites", "addFavorite"} /\ Answered(s)
    /\ req[s].next = TRUE
    /\ \A u \in users : u.id # req[s].user.id
    /\ Answer(req[s]).status = 500 /\ Answer(req[s]).success = FALSE

(* ---- C9 ---- *)

\* C9: in every reachable state no user's favorites list holds a movie
\* identifier more than once.
C9_NoDuplicateFavorites ==
  \A u \in users : \A i, j \in 1..Len(u.favorites) :
    u.favorites[i].movieId.v = u.favorites[j].movieId.v => i = j

(* ---- C10 ---- *)

\* C10: in every reachable state no two stored users share a username and
\* no two share an email.
C10_UniqueUsers ==
  \A u, w \in users :
    u # w => u.username # w.username /\ u.email # w.email /\ u.id # w.id

\* C10 witness: two registrations with the same email or username both
\* passed the existence lookup; one was saved and answered 201, the save of
\* the other was refused.
C10_Witness ==
  \E s, z \in Slots :
    /\ req[s].kind = "register" /\ Answered(s) /\ Answer(req[s]).status = 201
    /\ req[z].kind = "register" /\ Answered(z) /\ Answer(req[z]).status = 500
    /\ req[s].email = req[z].email \/ req[s].username = req[z].username
    /\ Cardinality({u \in users : u.email = req[z].email
                                    \/ u.username = req[z].username}) = 1

(* ---- C11 ---- *)

\* The routes behind the gate.
GateKinds == {"getFavorites", "addFavorite"}

\* The token part of the header a protected request came with.
Presented(r) == BearerToken(r.header)

\* The 401 of the gate for a token it does not accept.
InvalidToken(r) ==
  /\ r.pc = "done" /\ Len(r.res) = 1
  /\ Answer(r).status = 401 /\ Answer(r).success = FALSE
  /\ Answer(r).message = "Invalid token"

\* C11, verification: a request that arrives at a protected route with a
\* token is answered 401 'Invalid token' at once when the token does not
\* verify at that time (bad signature, expired, no token at all in the
\* part); otherwise it waits for the user lookup with the token's identifier
\* claim.  The handler has not run and the store is unchanged.
C11_Verify ==
  \A s \in Slots :
    (Arrives(s) /\ req'[s].kind \in GateKinds /\ Presented(req'[s]) # <<>>) =>
      /\ req'[s].next = FALSE /\ req'[s].user = Undefined
      /\ users' = users
      /\ IF VerifyPart(Presented(req'[s]), now)
           THEN /\ req'[s].pc = "authFind" /\ req'[s].res = <<>>
                /\ req'[s].decoded = Presented(req'[s])[1].userId
           ELSE InvalidToken(req'[s])

\* C11, lookup: when the gate's user lookup answers, next() is called only
\* if a stored user has the identifier of the token, and then req.user is
\* that stored user without a password field; a lookup that succeeds and
\* finds the user always calls next().  Otherwise the request is answered
\* 401 'Invalid token' and the handler does not run.  The store is unchanged.
C11_Lookup ==
  \A s \in Slots :
    (req[s].pc = "authFind" /\ req'[s] # req[s]) =>
      LET found == {u \in users : u.id = Presented(req[s])[1].userId}
      IN /\ users' = users
         /\ (found # {} /\ ~StoreFails(s)) => req'[s].next
         /\ IF req'[s].next
              THEN /\ \E u \in found :
                        req'[s].user = [id |-> u.id, username |-> u.username,
                                        email |-> u.email,
                                        favorites |-> u.favorites]
                   /\ "password" \notin DOMAIN req'[s].user
              ELSE /\ InvalidToken(req'[s])
                   /\ req'[s].user = Undefined

\* C11, handler: a step of a handler behind the gate reads the favorites
\* of the token's user and changes no other user's document.
C11_OwnFavorites ==
  \A s \in Slots :
    (req[s].kind \in GateKinds /\ req[s].next /\ req'[s] # req[s]) =>
      LET id == Presented(req[s])[1].userId
      IN /\ \A u \in users : u.id # id => u \in users'
         /\ \A u \in users' : u.id # id => u \in users
         /\ (req[s].pc = "favFind" /\ req'[s].pc = "fanout") =>
              \E u \in users : u.id = id /\ req'[s].favs = u.favorites
         /\ (req[s].pc = "addFind" /\ req'[s].pc = "addSave") =>
              /\ req'[s].doc.id = id
              /\ \E u \in users :
                   u.id = id /\ Len(req'[s].doc.favorites) = Len(u.favorites) + 1
         /\ (req[s].pc = "addSave" /\ users' # users) =>
              \E u \in users, w \in users' :
                u.id = id /\ w.id = id /\ users' = (users \ {u}) \cup {w}

\* C11, state: a request is in its handler, or was answered by it, only
\* with next() called, and then its token has a valid signature, was issued
\* no later than now and names the user in req.user; a request the gate
\* stopped has no req.user and a 401.
C11_HandlerBehindGate ==
  \A s \in Slots :
    req[s].kind \in GateKinds =>
      IF req[s].next
        THEN /\ Len(Presented(req[s])) = 1
             /\ Presented(req[s])[1].k = "jwt"
             /\ Presented(req[s])[1].sig = "valid"
             /\ Presented(req[s])[1].iat <= now
             /\ req[s].user.id = Presented(req[s])[1].userId
             /\ req[s].pc # "authFind"
        ELSE /\ req[s].pc \in {"authFind", "done"}
             /\ req[s].user = Undefined
             /\ Answered(s) => Answer(req[s]).status = 401

\* C11: the handler behind the Auth Gate runs only when the presented token
\* verifies and the user its identifier claim names is stored, with req.user
\* set to that stored user without the password, so that favorites are read
\* and written for the token's user only; with a token present, every other
\* case is answered 401 'Invalid token' with the handler not run, and the
\* gate never changes the store.
C11_GateThenHandler ==
  []C11_HandlerBehindGate
    /\ [][C11_Verify /\ C11_Lookup /\ C11_OwnFavorites]_vars

\* C11 witness: one request passed the gate and its handler added a
\* favorite to the token's user; a second request with a token that
\* verifies but names a user no longer stored was answered 401 'Invalid
\* token' without its handler running.
C11_Witness ==
  \E s, z \in Slots :
    /\ req[s].kind = "addFavorite" /\ Answered(s) /\ req[s].next
    /\ Answer(req[s]).status = 200
    /\ req[z].kind \in GateKinds /\ ~req[z].next
    /\ VerifyPart(Presented(req[z]), now)
    /\ \A u \in users : u.id # Presented(req[z])[1].userId
    /\ InvalidToken(req[z])

(* ---- C12 ---- *)

\* The indexes of the lookups of a request that have not settled.
Outstanding(r) == {i \in 1..Len(r.results) : r.results[i] = Pending}

\* C12, fan-out: when the handler has loaded the user, it has issued one
\* lookup for every entry of the stored list, in list order, and all of
\* them are outstanding: none was awaited before the next was issued.  With
\* no entry there is no lookup and the response is sent in that step.
C12_FanOut ==
  \A s \in Slots :
    (req[s].kind = "getFavorites" /\ req[s].pc = "favFind"
       /\ "favs" \in DOMAIN req'[s]) =>
      /\ req'[s].favs = StoredFavorites(req[s])
      /\ Len(req'[s].results) = Len(req'[s].favs)
      /\ Outstanding(req'[s]) = 1..Len(req'[s].favs)
      /\ IF req'[s].favs = <<>>
           THEN req'[s].pc = "done" /\ Len(req'[s].res) = 1
           ELSE req'[s].pc = "fanout" /\ req'[s].res = <<>>

\* C12, lookups: while the lookups are out, a step of the request settles
\* exactly one outstanding lookup, whether it failed or not; no response is
\* sent as long as another is outstanding, and the response is sent when
\* the last one settles.  A settled lookup is never issued again and the
\* list of lookups neither grows nor shrinks.
C12_FanIn ==
  \A s \in Slots :
    (req[s].kind = "getFavorites" /\ req[s].pc = "fanout"
       /\ req'[s] # req[s]) =>
      /\ req'[s].favs = req[s].favs
      /\ Len(req'[s].results) = Len(req[s].results)
      /\ \A i \in 1..Len(req[s].results) :
           req[s].results[i] # Pending => req'[s].results[i] = req[s].results[i]
      /\ \E i \in Outstanding(req[s]) :
           Outstanding(req'[s]) = Outstanding(req[s]) \ {i}
      /\ IF Outstanding(req'[s]) = {}
           THEN req'[s].pc = "done" /\ Len(req'[s].res) = 1
           ELSE req'[s].pc = "fanout" /\ req'[s].res = <<>>

\* C12, state: a request whose lookups are out has one outstanding and no
\* response, and a request the handler answered with the favorites has one
\* settled lookup for every entry of the list it read.
C12_NoEarlyResponse ==
  \A s \in Slots :
    req[s].kind = "getFavorites" =>
      /\ (req[s].pc = "fanout") =>
           req[s].res = <<>> /\ Outstanding(req[s]) # {}
      /\ (Answered(s) /\ Answer(req[s]).status = 200) =>
           /\ Len(req[s].results) = Len(req[s].favs)
           /\ Outstanding(req[s]) = {}

\* C12, progress: with lookups that all settle, a request whose lookups
\* are out is eventually answered.
C12_EventuallyAnswered ==
  \A s \in Slots :
    (req[s].kind = "getFavorites" /\ req[s].pc = "fanout")
      ~> (req[s].kind = "getFavorites" /\ Answered(s))

\* C12: GET /api/users/favorites issues exactly one lookup for every
\* favorite, all of them before any settles, never retries or skips one,
\* sends its response only once all of them have settled, a failure
\* included, and does send it if every lookup settles.
C12_FanOutFanIn ==
  /\ []C12_NoEarlyResponse
  /\ [][C12_FanOut /\ C12_FanIn]_vars
  /\ C12_EventuallyAnswered

\* C12 witness: one request has a lookup that failed while another of its
\* lookups is still outstanding, and has sent nothing; another request was
\* answered after its lookups, at least two and one of them failed, had
\* all settled.
C12_Witness ==
  \E s, z \in Slots :
    /\ req[s].kind = "getFavorites" /\ req[s].pc = "fanout"
    /\ Len(req[s].results) >= 2 /\ req[s].results[1] = Null
    /\ Outstanding(req[s]) # {} /\ req[s].res = <<>>
    /\ req[z].kind = "getFavorites" /\ Answered(z)
    /\ Answer(req[z]).status = 200
    /\ Len(req[z].results) >= 2 /\ Outstanding(req[z]) = {}
    /\ \E i \in 1..Len(req[z].results) : req[z].results[i] = Null

(* ---- C13 ---- *)

\* The hash register stores for a plaintext: one application of bcrypt
\* with the schema's cost.
RegistrationHash(password) == BcryptHash(Plain(password), BcryptCost)

\* C13, state: every stored user that register answered for holds the hash
\* computed once from the plaintext it registered with, which the original
\* password verifies against, whatever its favorites list has become.
C13_HashOfRegistration ==
  \A a \in accounts : \A u \in users :
    u.id = a.id =>
      /\ u.password = RegistrationHash(a.password)
      /\ ComparePassword(u, a.password)

\* C13, steps: no step changes the password field of a stored user, the
\* save of POST /api/users/favorites included, and a login with the email
\* and original password of a stored user is answered 200 for that user.
C13_HashUnchanged ==
  /\ \A u \in users : \A w \in users' :
       w.id = u.id => w.password = u.password
  /\ \A s \in Slots :
       (req[s].kind = "addFavorite" /\ req[s].pc = "addSave"
          /\ AnsweredNow(s) /\ Answer(req'[s]).status = 200) =>
         \E u \in users, w \in users' :
           /\ u.id = req[s].user.id /\ w.id = u.id
           /\ Len(w.favorites) = Len(u.favorites) + 1
           /\ w.password = u.password
  /\ \A s \in Slots :
       (req[s].kind = "login" /\ AnsweredNow(s)) =>
         \A a \in accounts :
           (a.email = req[s].email /\ a.password = req[s].password
              /\ \E u \in users : u.id = a.id) =>
             /\ Answer(req'[s]).status = 200
             /\ Answer(req'[s]).user.id = a.id

\* C13: the stored password hash is computed from the plaintext once, when
\* the user is created, and no later save that leaves the password alone
\* changes it: after successful POST /api/users/favorites requests the
\* stored hash is the one of registration and login with the original
\* password succeeds.
C13_HashedOnce == []C13_HashOfRegistration /\ [][C13_HashUnchanged]_vars

\* C13 witness: a POST /api/users/favorites of a registered user was
\* answered 200 and its entry is in the stored list, the stored hash is the
\* one of registration, and a login with the original password at a later
\* time than the entry was added was answered 200.
C13_Witness ==
  \E s, z \in Slots : \E a \in accounts : \E u \in users :
    /\ u.id = a.id
    /\ req[s].kind = "addFavorite" /\ Answered(s)
    /\ Answer(req[s]).status = 200 /\ req[s].user.id = u.id
    /\ Len(u.favorites) > Len(req[s].user.favorites)
    /\ u.password = RegistrationHash(a.password)
    /\ req[z].kind = "login" /\ Answered(z)
    /\ req[z].email = a.email /\ req[z].password = a.password
    /\ Answer(req[z]).status = 200
    /\ Answer(req[z]).token.iat > u.favorites[Len(u.favorites)].addedAt

(* ---- C14 ---- *)

\* A token the server sent that a logout has removed from the storage of
\* a browser.
LoggedOut(tok) == (\E i \in issued : i.jwt = tok) /\ tok \in loggedOut

\* C14, state: what a browser holds is a token the server sent, with the
\* user the response named, and so is every token a logout removed.
C14_StorageHoldsIssued ==
  /\ \A b \in Browsers :
       localStorage[b] # Cleared =>
         \E i \in issued :
           /\ i.jwt = localStorage[b].token
           /\ localStorage[b].user.id = i.userId
           /\ localStorage[b].user.email = i.email
  /\ \A tok \in loggedOut : \E i \in issued : i.jwt = tok

\* C14, logout: a logout removes the token and the user of one browser
\* from its storage and changes nothing on the server.
C14_LogoutIsLocal ==
  \A b \in Browsers :
    (localStorage[b] # Cleared /\ localStorage'[b] = Cleared) =>
      /\ localStorage' = [localStorage EXCEPT ![b] = Cleared]
      /\ localStorage[b].token \in loggedOut'
      /\ UNCHANGED <<users, nextId, now, req, nreq, issued, accounts>>

\* C14, verification: a logged-out token that arrives at a protected route
\* before its expiry passes the verification of the gate.
C14_StillVerifies ==
  \A s \in Slots :
    (Arrives(s) /\ req'[s].kind \in GateKinds
       /\ Len(Presented(req'[s])) = 1 /\ LoggedOut(Presented(req'[s])[1])
       /\ now < Presented(req'[s])[1].exp) =>
      /\ req'[s].pc = "authFind" /\ req'[s].res = <<>>
      /\ req'[s].afterLogout

\* C14, lookup: a request that came with a logged-out token and passed the
\* verification gets through the gate when the lookup finds its user.
C14_StillAccepted ==
  \A s \in Slots :
    (req[s].pc = "authFind" /\ req'[s] # req[s] /\ req[s].afterLogout
       /\ ~StoreFails(s)
       /\ \E u \in users : u.id = Presented(req[s])[1].userId) =>
      /\ req'[s].next
      /\ req'[s].user.id = Presented(req[s])[1].userId
      /\ Answered(s)' => Answer(req'[s]).status # 401

\* C14: logging out does not revoke a token.  The logout only clears the
\* client's storage; the same token presented afterwards to a protected
\* route is accepted by the gate at every time before its expiry, as long
\* as its user is stored.
C14_LogoutDoesNotRevoke ==
  /\ []C14_StorageHoldsIssued
  /\ [][C14_LogoutIsLocal /\ C14_StillVerifies /\ C14_StillAccepted]_vars

\* C14 witness: a request that came with a token after a logout had
\* removed it from its browser went through the gate and was answered 200
\* by the handler, and no browser holds the token.
C14_Witness ==
  \E s \in Slots :
    /\ req[s].kind \in GateKinds /\ Answered(s)
    /\ req[s].afterLogout /\ req[s].next
    /\ Len(Presented(req[s])) = 1 /\ LoggedOut(Presented(req[s])[1])
    /\ ~Held(Presented(req[s])[1])
    /\ Answer(req[s]).status = 200

====
